---- MODULE Spec2Model ----
(***************************************************************************)
(* Photo Smith: the filter engine's cancellation/progress protocol and the *)
(* bounded undo/redo history, as driven by the PhotoSmith main window.     *)
(*                                                                         *)
(* The GUI runs on one thread.  A handler that calls                       *)
(* QApplication::processEvents() suspends at that call while the event     *)
(* loop dispatches every pending GUI event to its handler; the model keeps *)
(* the suspended handlers on `stack` and dispatches events whenever the    *)
(* stack is empty (the main event loop) or its top frame is inside         *)
(* processEvents().                                                        *)
(***************************************************************************)
EXTENDS Integers, Sequences, FiniteSets, TLC

VARIABLES
    hasImage,            \* PhotoSmith::hasImage
    originalImage,       \* PhotoSmith::originalImage
    currentImage,        \* PhotoSmith::currentImage
    preFilterImage,      \* PhotoSmith::preFilterImage
    cancelRequested,     \* PhotoSmith::cancelRequested
    history,             \* PhotoSmith::history: [undo, redo] stacks of Images
    hasUnsavedChanges,   \* PhotoSmith::hasUnsavedChanges
    cancelButtonVisible, \* ui.cancelButton visibility
    stack,               \* suspended and running handler activations, top last
    budget,              \* GUI events the user may still issue
    hlog,                \* history variable: the last calls made on `history`
    obs                  \* history variable: what the last step let an observer see

vars == <<hasImage, originalImage, currentImage, preFilterImage, cancelRequested,
          history, hasUnsavedChanges, cancelButtonVisible, stack, budget, hlog, obs>>

(***************************************************************************)
(* Bounds of the model.                                                    *)
(***************************************************************************)
MaxEvents == 4
MaxDepth == 2
LogLen == 3
MaxRowEvents == 3
MaxSnapshots == 22
MaxEngineCalls == 2
MaxTurns == 4
MaxFrameWidth == 12
MaxEdgeCalls == 2
MaxReloadEvents == 6
MaxFormCalls == 2

(***************************************************************************)
(* Pixel Buffer.  An Image is [width, height, data]; data[y+1][x+1] is the *)
(* pixel <<R, G, B>> at column x of row y.  Assignment copies the value.   *)
(***************************************************************************)
Min(a, b) == IF a < b THEN a ELSE b
Max(a, b) == IF a > b THEN a ELSE b

EmptyImage == [width |-> 0, height |-> 0, data |-> <<>>]

\* Image(w, h) with every pixel set to p
FillImage(w, h, p) ==
    [width |-> w, height |-> h, data |-> [y \in 1..h |-> [x \in 1..w |-> p]]]

Pixel(img, x, y) == img.data[y + 1][x + 1]

SetPixel(img, x, y, p) ==
    [img EXCEPT !.data[y + 1][x + 1] = p]

SetRow(img, y, row) == [img EXCEPT !.data[y + 1] = row]

(***************************************************************************)
(* History Manager (capacity HistoryCapacity).                             *)
(***************************************************************************)
HistoryCapacity == 20

EmptyHistory == [undo |-> <<>>, redo |-> <<>>]

canUndo(h) == Len(h.undo) > 0
canRedo(h) == Len(h.redo) > 0

\* a pushUndo that never evicts
pushUndoUnbounded(h, img) ==
    [undo |-> Append(h.undo, img), redo |-> <<>>]

\* a pushUndo that makes room by dropping the newest entry instead of the oldest
pushUndoDropNewest(h, img) ==
    LET kept == IF Len(h.undo) >= HistoryCapacity
                THEN SubSeq(h.undo, 1, HistoryCapacity - 1) ELSE h.undo
    IN  [undo |-> Append(kept, img), redo |-> <<>>]

\* pushUndo: deep copy onto the undo stack, evict the oldest past capacity,
\* clear the redo stack
pushUndo(h, img) ==
    LET pushed == Append(h.undo, img)
    IN  [undo |-> IF Len(pushed) > HistoryCapacity THEN Tail(pushed) ELSE pushed,
         redo |-> <<>>]

\* undo(out): [ret, out, h] after the call
undoCall(h, out) ==
    IF ~canUndo(h)
    THEN [ret |-> FALSE, out |-> out, h |-> h]
    ELSE [ret |-> TRUE,
          out |-> h.undo[Len(h.undo)],
          h   |-> [undo |-> SubSeq(h.undo, 1, Len(h.undo) - 1),
                   redo |-> Append(h.redo, out)]]

\* a redo that copies the top redo entry without popping it
redoCallKeepsEntry(h, out) ==
    IF ~canRedo(h)
    THEN [ret |-> FALSE, out |-> out, h |-> h]
    ELSE [ret |-> TRUE,
          out |-> h.redo[Len(h.redo)],
          h   |-> [undo |-> Append(h.undo, out), redo |-> h.redo]]

\* redo(out): the mirror operation
redoCall(h, out) ==
    IF ~canRedo(h)
    THEN [ret |-> FALSE, out |-> out, h |-> h]
    ELSE [ret |-> TRUE,
          out |-> h.redo[Len(h.redo)],
          h   |-> [undo |-> Append(h.undo, out),
                   redo |-> SubSeq(h.redo, 1, Len(h.redo) - 1)]]

clearHistory(h) == EmptyHistory


(***************************************************************************)
(* Filter Engine: the per-unit work of the cancelable filters.             *)
(***************************************************************************)
\* a grayscale that rounds the mean to the nearest integer
GrayPixelRounded(p) ==
    LET gray == (p[1] + p[2] + p[3] + 1) \div 3 IN <<gray, gray, gray>>

\* int gray = (r + g + b) / 3, written to the three channels
GrayPixel(p) ==
    LET gray == (p[1] + p[2] + p[3]) \div 3 IN <<gray, gray, gray>>

\* an invert whose channel loop stops before the blue channel
InvertPixelTwoChannels(p) == <<255 - p[1], 255 - p[2], p[3]>>

InvertPixel(p) == <<255 - p[1], 255 - p[2], 255 - p[3]>>

\* brightness = (r+g+b)/3.0f; inverted = 255 - brightness; G = B = int(inverted)
InfraredPixel(p) ==
    LET inverted == (765 - (p[1] + p[2] + p[3])) \div 3 IN <<255, inverted, inverted>>

\* the pixel an in-place per-pixel filter f writes for p
FilterPixel(f, p) ==
    CASE f = "Grayscale" -> GrayPixel(p)
      [] f = "Invert"    -> InvertPixel(p)
      [] f = "Infrared"  -> InfraredPixel(p)

\* one row of an in-place per-pixel filter
MapRow(img, y, f) ==
    SetRow(img, y, [x \in 1..img.width |-> FilterPixel(f, img.data[y + 1][x])])

\* one column of an in-place per-pixel filter
MapColumn(img, x, f) ==
    [img EXCEPT !.data =
        [y \in 1..img.height |-> [img.data[y] EXCEPT ![x + 1] = FilterPixel(f, @)]]]

RECURSIVE SumChannel(_, _, _)
SumChannel(img, S, c) ==
    IF S = {} THEN 0
    ELSE LET q == CHOOSE q \in S : TRUE
         IN  Pixel(img, q[1], q[2])[c] + SumChannel(img, S \ {q}, c)

\* strength 0..100 -> radius 1..25
BlurRadius(strength) ==
    LET clamped == Max(0, Min(100, strength))
    IN  Max(1, (clamped * 24) \div 100 + 1)

\* the in-bounds positions of the (2r+1)x(2r+1) window around (x, y)
BlurWindow(img, x, y, r) ==
    {q \in ((x - r)..(x + r)) \X ((y - r)..(y + r)) :
        /\ q[1] >= 0 /\ q[1] < img.width
        /\ q[2] >= 0 /\ q[2] < img.height}

\* a blur that divides by the size of the whole window, in bounds or not
BlurPixelFullDivisor(img, x, y, r) ==
    LET W == BlurWindow(img, x, y, r)
        count == (2 * r + 1) * (2 * r + 1)
    IN  <<SumChannel(img, W, 1) \div count,
          SumChannel(img, W, 2) \div count,
          SumChannel(img, W, 3) \div count>>

BlurPixel(img, x, y, r) ==
    LET W == BlurWindow(img, x, y, r)
        count == Max(1, Cardinality(W))
    IN  <<SumChannel(img, W, 1) \div count,
          SumChannel(img, W, 2) \div count,
          SumChannel(img, W, 3) \div count>>

\* row y of the blur: reads img, writes result
BlurRow(img, result, y, r) ==
    SetRow(result, y, [x \in 1..img.width |-> BlurPixel(img, x - 1, y, r)])

\* the noise the TV filter's generator, seeded with `seed`, draws for the
\* k-th pixel: a value of -10..10 fixed by the seed and the position in the
\* sequence of draws
TVNoiseShared(seed, k) == ((budget * 5 + k * 3) % 21) - 10

TVNoise(seed, k) == ((seed * 5 + k * 3) % 21) - 10

\* applyTVFilter's pixel body for a pixel of row y: tint by brightness
\* ((r+g+b)/3/255 below 0.5 or above 0.7), darken every third row, add noise
TVPixel(p, y, noise) ==
    LET sum == p[1] + p[2] + p[3]
        tinted == IF 2 * sum < 765
                  THEN <<(p[1] * 8) \div 10, (p[2] * 7) \div 10,
                         Min(255, (p[3] * 12) \div 10)>>
                  ELSE IF 10 * sum > 5355
                  THEN <<Min(255, (p[1] * 13) \div 10), Min(255, (p[2] * 11) \div 10),
                         (p[3] * 9) \div 10>>
                  ELSE p
        lined == IF y % 3 = 0
                 THEN [c \in 1..3 |-> (tinted[c] * 7) \div 10]
                 ELSE tinted
    IN  [c \in 1..3 |-> Min(255, Max(0, lined[c] + noise))]

\* row y of the TV filter; the generator is drawn once per pixel, row by row
TVRow(img, y, seed) ==
    SetRow(img, y, [x \in 1..img.width |->
                       TVPixel(img.data[y + 1][x], y,
                               TVNoise(seed, y * img.width + (x - 1)))])

\* Image(width, height) as the constructor leaves it when it puts `fill` in
\* every sample
Constructed(img, fill) == FillImage(img.width, img.height, <<fill, fill, fill>>)

\* the number of channels of an Image
ImageChannels == 3

\* applyEmboss's pixel body: the clamped difference with the lower right
\* neighbour, averaged over the channels
EmbossPixel(img, x, y) ==
    LET p1 == Pixel(img, x, y)
        p2 == Pixel(img, x + 1, y + 1)
        diff == [c \in 1..3 |-> Min(255, Max(0, p1[c] - p2[c] + 128))]
        gray == (diff[1] + diff[2] + diff[3]) \div 3
    IN  <<gray, gray, gray>>

\* row y of the cancelable emboss: x < width - 1, the last column is not written
EmbossRow(img, result, y) ==
    SetRow(result, y, [xx \in 1..img.width |->
                          IF xx - 1 < img.width - 1
                          THEN EmbossPixel(img, xx - 1, y)
                          ELSE result.data[y + 1][xx]])

\* int(v1 * 0.6 + v2 * 0.4), for the sample values of the images checked
Blend(v1, v2) == (6 * v1 + 4 * v2) \div 10

\* applyDoubleVision's pixel body
DoubleVisionPixel(img, x, y, offset) ==
    LET off == Max(0, offset)
        nx == IF x + off >= img.width THEN img.width - 1 ELSE x + off
        p1 == Pixel(img, x, y)
        p2 == Pixel(img, nx, y)
    IN  <<Min(255, Blend(p1[1], p2[1]) + 25), Blend(p1[2], p2[2]), Blend(p1[3], p2[3])>>

DoubleVisionRow(img, result, y, offset) ==
    SetRow(result, y, [xx \in 1..img.width |-> DoubleVisionPixel(img, xx - 1, y, offset)])

\* level = min(255, max(0, avg / max(1, intensity)))
OilLevel(p, intensity) ==
    Min(255, Max(0, ((p[1] + p[2] + p[3]) \div 3) \div Max(1, intensity)))

\* applyOilPainting's pixel body: the mean colour of the window's most frequent
\* level, the lowest such level when several are as frequent
OilPaintingPixel(img, i, j, radius, intensity) ==
    LET r == Max(1, radius)
        n == Max(1, Min(255, intensity))
        W == BlurWindow(img, i, j, r)
        AtLevel(k) == {q \in W : OilLevel(Pixel(img, q[1], q[2]), n) = k}
        levels == {OilLevel(Pixel(img, q[1], q[2]), n) : q \in W}
        maxLevel == IF levels = {} THEN 0
                    ELSE CHOOSE k \in levels :
                            \A l \in levels :
                                \/ Cardinality(AtLevel(l)) < Cardinality(AtLevel(k))
                                \/ /\ Cardinality(AtLevel(l)) = Cardinality(AtLevel(k))
                                   /\ l >= k
        denom == Max(1, Cardinality(AtLevel(maxLevel)))
    IN  <<SumChannel(img, AtLevel(maxLevel), 1) \div denom,
          SumChannel(img, AtLevel(maxLevel), 2) \div denom,
          SumChannel(img, AtLevel(maxLevel), 3) \div denom>>

\* a row of the oil painting computed from the buffer being written
OilPaintingRowReadsResult(img, result, j, arg) ==
    SetRow(result, j, [xx \in 1..img.width |->
                          OilPaintingPixel(result, xx - 1, j, arg[1], arg[2])])

\* row j of the cancelable oil painting: reads img, writes result
OilPaintingRow(img, result, j, arg) ==
    SetRow(result, j, [xx \in 1..img.width |->
                          OilPaintingPixel(img, xx - 1, j, arg[1], arg[2])])

\* the samples v for which v * 1.4, in double arithmetic, falls just below the
\* integer 14 * v / 10
ScaledBelow == {45, 85, 90, 165, 170, 175, 180}

\* min(255, int(v * 1.4))
SunlightBoost(v) ==
    Min(255, IF v \in ScaledBelow THEN (14 * v) \div 10 - 1 ELSE (14 * v) \div 10)

\* applyEnhanceSunlight's channel loop over c < channels: R and G boosted, the
\* other channels copied, a channel the loop does not reach left as constructed
SunlightPixel(p, constructed, channels) ==
    [c \in 1..3 |-> IF c > channels THEN constructed[c]
                    ELSE IF c <= 2 THEN SunlightBoost(p[c]) ELSE p[c]]

\* row y of the cancelable form, whose channel loop is c < 3
SunlightRow(img, result, y) ==
    SetRow(result, y, [xx \in 1..img.width |->
                          SunlightPixel(img.data[y + 1][xx], result.data[y + 1][xx], 3)])

\* a * (R / d2)^(1/8) >= b, for integers a, b and R, d2 > 0
ScaledAtLeast(a, b, R, d2) ==
    LET Pow8(v) == (v * v) * (v * v) * (v * v) * (v * v)
    IN  IF a >= 0
        THEN b <= 0 \/ Pow8(a) * R >= Pow8(b) * d2
        ELSE b < 0 /\ Pow8(a) * R <= Pow8(b) * d2

\* int(center + (d / dist) * pow(dist, 0.75) * radius) along an axis of n
\* samples, with a = 2 * (position - center), R = (2 * radius)^2 and
\* d2 = R * dist^2: center + (position - center) * dist^(-1/4), truncated
FishEyeAxis(a, n, R, d2) ==
    LET k == CHOOSE k \in 0..(n - 1) :
                /\ ScaledAtLeast(a, 2 * k - n, R, d2)
                /\ ~ScaledAtLeast(a, 2 * k + 2 - n, R, d2)
    IN  Min(n - 1, Max(0, k))

\* applyFishEye's pixel body
FishEyePixel(img, x, y) ==
    LET D == Min(img.width, img.height)
        R == D * D
        ax == 2 * x - img.width
        ay == 2 * y - img.height
        d2 == ax * ax + ay * ay
    IN  IF d2 < R /\ d2 > 0
        THEN Pixel(img, FishEyeAxis(ax, img.width, R, d2),
                        FishEyeAxis(ay, img.height, R, d2))
        ELSE Pixel(img, x, y)

FishEyeRow(img, result, y) ==
    SetRow(result, y, [xx \in 1..img.width |-> FishEyePixel(img, xx - 1, y)])

(***************************************************************************)
(* The cancelable filters' loop shape: the axis they iterate, whether they *)
(* write currentImage in place or a separate result buffer, and the        *)
(* updateInterval they pass to updateProgress.                             *)
(***************************************************************************)
DefaultUpdateInterval == 50

UpdateInterval(f) ==
    CASE f = "Grayscale" -> DefaultUpdateInterval
      [] f = "Invert"    -> DefaultUpdateInterval
      [] f = "Infrared"  -> 50
      [] f = "Blur"      -> 10
      [] f = "TV"        -> 20
      [] f = "Emboss"       -> 20
      [] f = "DoubleVision" -> 20
      [] f = "OilPainting"  -> 5
      [] f = "Sunlight"     -> 20
      [] f = "FishEye"      -> 10

InPlace(f) == f \in {"Grayscale", "Invert", "Infrared", "TV"}

\* the loop bound, read from currentImage at every iteration
UnitLimit(f, img) ==
    CASE f = "Infrared" -> img.width
      [] f = "Emboss"   -> img.height - 1
      [] OTHER          -> img.height

\* unit i of filter f: [img, result] after it
ProcessUnit(f, img, result, i, arg) ==
    CASE f = "Grayscale" -> [img |-> MapRow(img, i, f), result |-> result]
      [] f = "Invert"    -> [img |-> MapRow(img, i, f), result |-> result]
      [] f = "Infrared"  -> [img |-> MapColumn(img, i, f), result |-> result]
      [] f = "Blur"      -> [img |-> img, result |-> BlurRow(img, result, i, BlurRadius(arg))]
      [] f = "TV"        -> [img |-> TVRow(img, i, arg), result |-> result]
      [] f = "Emboss"       -> [img |-> img, result |-> EmbossRow(img, result, i)]
      [] f = "DoubleVision" -> [img |-> img, result |-> DoubleVisionRow(img, result, i, arg)]
      [] f = "OilPainting"  -> [img |-> img, result |-> OilPaintingRow(img, result, i, arg)]
      [] f = "Sunlight"     -> [img |-> img, result |-> SunlightRow(img, result, i)]
      [] f = "FishEye"      -> [img |-> img, result |-> FishEyeRow(img, result, i)]

\* a cancelable filter run from unit i to its end with the flag clear and no
\* event pending: the buffer it leaves
RECURSIVE RunUnits(_, _, _, _, _)
RunUnits(f, img, result, i, arg) ==
    IF i < UnitLimit(f, img)
    THEN LET u == ProcessUnit(f, img, result, i, arg)
         IN  RunUnits(f, u.img, u.result, i + 1, arg)
    ELSE IF InPlace(f) THEN img ELSE result

RunToCompletion(f, img, arg) ==
    RunUnits(f, img, FillImage(img.width, img.height, <<0, 0, 0>>), 0, arg)


(***************************************************************************)
(* Immediate operations used by the main window.                           *)
(***************************************************************************)
\* applyFlip: "Horizontal" swaps columns x and width-1-x; anything else is
\* the vertical flip
Flip(img, direction) ==
    IF direction = "Horizontal"
    THEN [img EXCEPT !.data =
            [y \in 1..img.height |-> [x \in 1..img.width |-> img.data[y][img.width + 1 - x]]]]
    ELSE [img EXCEPT !.data =
            [y \in 1..img.height |-> img.data[img.height + 1 - y]]]


\* a 90-degree rotation that mirrors with the width where the height is meant
\* (reads clamped to the buffer)
Rotate90WrongAxis(img) ==
    [width |-> img.height, height |-> img.width,
     data |-> [ny \in 1..img.width |-> [nx \in 1..img.height |->
                  Pixel(img, ny - 1, Max(0, Min(img.height - 1, img.width - nx)))]]]

\* applyRotate "90": pixel (x, y) goes to (height-1-y, x) of a height x width image
Rotate90(img) ==
    [width |-> img.height, height |-> img.width,
     data |-> [ny \in 1..img.width |-> [nx \in 1..img.height |->
                  Pixel(img, ny - 1, img.height - nx)]]]

\* applyRotate "270": pixel (x, y) goes to (y, width-1-x)
Rotate270(img) ==
    [width |-> img.height, height |-> img.width,
     data |-> [ny \in 1..img.width |-> [nx \in 1..img.height |->
                  Pixel(img, img.width - ny, nx - 1)]]]

\* applyRotate "180": in place, for the rows y < height / 2 every pixel (x, y)
\* is swapped with (width-1-x, height-1-y)
Rotate180(img) ==
    [img EXCEPT !.data =
        [y \in 1..img.height |-> [x \in 1..img.width |->
            IF (y - 1) < img.height \div 2 \/ (img.height - y) < img.height \div 2
            THEN Pixel(img, img.width - x, img.height - y)
            ELSE img.data[y][x]]]]

\* applyRotate: "90", "180", and anything else is the 270 branch
Rotate(img, angle) ==
    IF angle = "90" THEN Rotate90(img)
    ELSE IF angle = "180" THEN Rotate180(img)
    ELSE Rotate270(img)

\* applyDarkAndLight(choice): "dark" divides every sample by 3, anything else
\* doubles it up to 255
DarkAndLight(img, choice) ==
    [img EXCEPT !.data =
        [y \in 1..img.height |-> [x \in 1..img.width |-> [c \in 1..3 |->
            IF choice = "dark"
            THEN img.data[y][x][c] \div 3
            ELSE Min(255, img.data[y][x][c] * 2)]]]]

\* Image(w, h): construction fails for a width or height that is not positive
ImageConstructor(w, h) ==
    IF w > 0 /\ h > 0
    THEN [ok |-> TRUE, img |-> FillImage(w, h, <<0, 0, 0>>)]
    ELSE [ok |-> FALSE, img |-> EmptyImage]

\* a resize that samples one source pixel too far
ResizeOffByOne(img, w, h) ==
    [width |-> w, height |-> h,
     data |-> [y \in 1..h |-> [x \in 1..w |->
        Pixel(img, Min(((x - 1) * img.width) \div w + 1, img.width - 1),
                   Min(((y - 1) * img.height) \div h + 1, img.height - 1))]]]

\* applyResize: nearest neighbour, srcX = (int)(x * srcWidth/width) clamped
Resize(img, w, h) ==
    [width |-> w, height |-> h,
     data |-> [y \in 1..h |-> [x \in 1..w |->
        Pixel(img, Min(((x - 1) * img.width) \div w, img.width - 1),
                   Min(((y - 1) * img.height) \div h, img.height - 1))]]]

\* applyMerge: averages the overlapping top-left region into cur, in place
Merge(cur, other) ==
    LET w == Min(cur.width, other.width)
        h == Min(cur.height, other.height)
        Avg(p, q) == <<(p[1] + q[1]) \div 2, (p[2] + q[2]) \div 2, (p[3] + q[3]) \div 2>>
    IN  [cur EXCEPT !.data =
            [y \in 1..cur.height |-> [x \in 1..cur.width |->
                IF x <= w /\ y <= h
                THEN Avg(cur.data[y][x], other.data[y][x])
                ELSE cur.data[y][x]]]]

\* the copy loop of performCropFromSelection
Crop(img, x0, y0, newW, newH) ==
    [width |-> newW, height |-> newH,
     data |-> [y \in 1..newH |-> [x \in 1..newW |-> Pixel(img, x0 + x - 1, y0 + y - 1)]]]

(***************************************************************************)
(* Inputs.                                                                 *)
(***************************************************************************)
PixA == <<100, 150, 200>>
PixB == <<10, 20, 30>>
PixC == <<255, 0, 90>>

ImgSmall == [width |-> 2, height |-> 2,
             data |-> <<<<PixA, PixB>>, <<PixC, PixA>>>>]
ImgWide == [width |-> 3, height |-> 2,
            data |-> <<<<PixB, PixA, PixC>>, <<PixA, PixA, PixB>>>>]

\* images long enough for a filter to reach the processEvents() of its
\* updateProgress: one unit more than the default update interval
ImgTall == FillImage(1, DefaultUpdateInterval + 1, PixA)
ImgLong == FillImage(DefaultUpdateInterval + 1, 1, PixB)
RowImages == {ImgTall, ImgLong}

\* the strengths chosen in the blur dialog
BlurStrengths == {0}

\* the files the user can open in the GUI model
LoadableImages == {ImgSmall, ImgWide}

(***************************************************************************)
(* Handler activations.                                                    *)
(***************************************************************************)
\* reports counts the values the handler has given to the progress bar through
\* updateProgress; history0 and unsaved0 record the history and the unsaved-changes flag the
\* handler found when it was entered; start records the buffer it found
Frame(op, name, pc, arg, other) ==
    [op |-> op, name |-> name, pc |-> pc, i |-> 0, result |-> EmptyImage,
     other |-> other, arg |-> arg, units |-> 0, reports |-> 0,
     start |-> currentImage, history0 |-> history, unsaved0 |-> hasUnsavedChanges]

Top == stack[Len(stack)]
Popped == SubSeq(stack, 1, Len(stack) - 1)
WithTop(f) == [stack EXCEPT ![Len(stack)] = f]

\* the pcs at which a handler is inside QApplication::processEvents()
EventPcs == {"events0", "events", "resizeCurrent", "resizeOther", "merge"}

CanNest == Len(stack) < MaxDepth

Log(op, ret, before, after) ==
    LET l == Append(hlog, [op |-> op, ret |-> ret, before |-> before, after |-> after])
    IN  IF Len(l) > LogLen THEN Tail(l) ELSE l

\* obs when the last step ended no cancelable operation; pushed and undos
\* count a run of pushes followed by undos since the history was last cleared
NoOperation ==
    [name |-> "none", outcome |-> "none", start |-> EmptyImage, final |-> EmptyImage,
     units |-> 0, limit |-> 0, reports |-> 0, pushed |-> <<>>, undos |-> 0]

\* a saveStateForUndo that snapshots the original image
saveStateForUndoStale ==
    IF ~hasImage
    THEN [history |-> history, hasUnsavedChanges |-> hasUnsavedChanges, hlog |-> hlog]
    ELSE [history |-> pushUndo(history, originalImage),
          hasUnsavedChanges |-> TRUE,
          hlog |-> Log("saveStateForUndo", TRUE, currentImage, currentImage)]

\* a saveStateForUndo that appends to the undo stack itself and so keeps the
\* redo stack
saveStateForUndoKeepRedo ==
    IF ~hasImage
    THEN [history |-> history, hasUnsavedChanges |-> hasUnsavedChanges, hlog |-> hlog]
    ELSE [history |-> [history EXCEPT !.undo = Append(@, currentImage)],
          hasUnsavedChanges |-> TRUE,
          hlog |-> Log("saveStateForUndo", TRUE, currentImage, currentImage)]

\* PhotoSmith::saveStateForUndo, as the values it leaves
saveStateForUndo ==
    IF ~hasImage
    THEN [history |-> history, hasUnsavedChanges |-> hasUnsavedChanges, hlog |-> hlog]
    ELSE [history |-> pushUndo(history, currentImage),
          hasUnsavedChanges |-> TRUE,
          hlog |-> Log("saveStateForUndo", TRUE, currentImage, currentImage)]

(***************************************************************************)
(* GUI event handlers that run to completion without processing events.    *)
(***************************************************************************)
imageVars == <<originalImage, currentImage, preFilterImage>>
historyVars == <<history, hasUnsavedChanges, hlog>>
cancelVars == <<cancelRequested, cancelButtonVisible>>

\* loadImageFromPath succeeding on one of `files`, then finalizeSuccessfulLoad
loadImageFromPath(files) ==
    /\ \E img \in files :
        /\ originalImage' = img
        /\ currentImage' = img
    /\ hasImage' = TRUE
    /\ hasUnsavedChanges' = FALSE
    /\ history' = clearHistory(history)
    /\ hlog' = Log("clear", TRUE, currentImage, currentImage')
    /\ UNCHANGED <<preFilterImage, cancelVars, stack>>

\* loadImage, or dropEvent while no image is loaded
loadImage == loadImageFromPath(LoadableImages)

\* unloadImage answered Discard/Yes, or Save with a successful save
unloadImage ==
    /\ hasImage
    /\ hasImage' = FALSE
    /\ hasUnsavedChanges' = FALSE
    /\ history' = clearHistory(history)
    /\ hlog' = Log("clear", TRUE, currentImage, currentImage)
    /\ UNCHANGED <<imageVars, cancelVars, stack>>

\* saveImage -> saveImageWithDialog succeeds
saveImage ==
    /\ hasImage
    /\ hasUnsavedChanges' = FALSE
    /\ UNCHANGED <<hasImage, imageVars, history, hlog, cancelVars, stack>>

resetImage ==
    /\ hasImage
    /\ currentImage' = originalImage
    /\ UNCHANGED <<hasImage, originalImage, preFilterImage, historyVars, cancelVars,
                   stack>>

\* an undo handler that falls back to the original image when nothing can
\* be undone
undoFallback ==
    /\ hasImage
    /\ LET r == undoCall(history, currentImage)
       IN  /\ history' = r.h
           /\ currentImage' = IF r.ret THEN r.out ELSE originalImage
           /\ hlog' = Log("undo", r.ret, currentImage, currentImage')
    /\ UNCHANGED <<hasImage, originalImage, preFilterImage, hasUnsavedChanges,
                   cancelVars, stack>>

undo ==
    /\ hasImage
    /\ LET r == undoCall(history, currentImage)
       IN  /\ history' = r.h
           /\ currentImage' = r.out
           /\ hlog' = Log("undo", r.ret, currentImage, currentImage')
    /\ UNCHANGED <<hasImage, originalImage, preFilterImage, hasUnsavedChanges,
                   cancelVars, stack>>

redo ==
    /\ hasImage
    /\ LET r == redoCall(history, currentImage)
       IN  /\ history' = r.h
           /\ currentImage' = r.out
           /\ hlog' = Log("redo", r.ret, currentImage, currentImage')
    /\ UNCHANGED <<hasImage, originalImage, preFilterImage, hasUnsavedChanges,
                   cancelVars, stack>>

\* the Cancel button's clicked() slot; the button is clickable while shown
cancelFilter ==
    /\ cancelButtonVisible
    /\ cancelRequested' = TRUE
    /\ UNCHANGED <<hasImage, imageVars, historyVars, cancelButtonVisible, stack>>

\* mouse release in crop mode -> performCropFromSelection with the selection
\* mapped to the pixel rectangle [x0, x1) x [y0, y1)
performCropFromSelection ==
    /\ hasImage
    /\ \E x0 \in 0..currentImage.width, x1 \in 0..currentImage.width,
          y0 \in 0..currentImage.height, y1 \in 0..currentImage.height :
        LET newW == Max(1, x1 - x0)
            newH == Max(1, y1 - y0)
        IN  /\ ~(newW <= 1 \/ newH <= 1)
            /\ currentImage' = Crop(currentImage, x0, y0, newW, newH)
    /\ history' = saveStateForUndo.history
    /\ hasUnsavedChanges' = saveStateForUndo.hasUnsavedChanges
    /\ hlog' = saveStateForUndo.hlog
    /\ UNCHANGED <<hasImage, originalImage, preFilterImage, cancelVars, stack>>

(***************************************************************************)
(* Handlers that call QApplication::processEvents(): they push a frame and *)
(* are resumed when the nested event processing returns.                   *)
(***************************************************************************)
\* applyGrayscale, applyInfrared, ... : the hasImage guard, then
\* runCancelableFilter up to the filter's first processEvents()
\* a runCancelableFilter that leaves the cancel flag as it finds it
runCancelableFilterKeepsFlag(name, arg) ==
    /\ hasImage
    /\ CanNest
    /\ preFilterImage' = currentImage
    /\ history' = saveStateForUndo.history
    /\ hasUnsavedChanges' = saveStateForUndo.hasUnsavedChanges
    /\ hlog' = saveStateForUndo.hlog
    /\ cancelButtonVisible' = TRUE
    /\ stack' = Append(stack, Frame("cancelable", name, "events0", arg, EmptyImage))
    /\ UNCHANGED <<hasImage, originalImage, currentImage, cancelRequested>>

runCancelableFilter(name, arg) ==
    /\ hasImage
    /\ CanNest
    /\ cancelRequested' = FALSE
    /\ preFilterImage' = currentImage
    /\ history' = saveStateForUndo.history
    /\ hasUnsavedChanges' = saveStateForUndo.hasUnsavedChanges
    /\ hlog' = saveStateForUndo.hlog
    /\ cancelButtonVisible' = TRUE
    /\ stack' = Append(stack, Frame("cancelable", name, "events0", arg, EmptyImage))
    /\ UNCHANGED <<hasImage, originalImage, currentImage>>

applyGrayscale == runCancelableFilter("Grayscale", 0)
applyInvert == runCancelableFilter("Invert", 0)
applyInfrared == runCancelableFilter("Infrared", 0)

\* applyBlur: the strength slider dialog accepted with `percent`
applyBlur == \E percent \in BlurStrengths : runCancelableFilter("Blur", percent)

\* the filter's processEvents() returns: after the first one the result
\* buffer of an out-of-place filter is allocated, then the loop runs
filterResume ==
    /\ stack # <<>>
    /\ Top.op = "cancelable"
    /\ Top.pc \in {"events0", "events"}
    /\ stack' = WithTop([Top EXCEPT
            !.pc = "loop",
            !.result = IF Top.pc = "events0" /\ ~InPlace(Top.name)
                       THEN FillImage(currentImage.width, currentImage.height, <<0, 0, 0>>)
                       ELSE @])
    /\ obs' = NoOperation
    /\ UNCHANGED <<hasImage, imageVars, historyVars, cancelVars>>

\* a loop iteration that does not poll the flag
filterUnitNoPoll ==
    /\ stack # <<>>
    /\ Top.op = "cancelable"
    /\ Top.pc = "loop"
    /\ Top.i < UnitLimit(Top.name, currentImage)
    /\ LET u == ProcessUnit(Top.name, currentImage, Top.result, Top.i, Top.arg)
           value == Top.i + 1
       IN  /\ currentImage' = u.img
           /\ stack' = WithTop([Top EXCEPT
                   !.result = u.result,
                   !.i = value,
                   !.units = @ + 1,
                   !.reports = @ + 1,
                   !.pc = IF value % UpdateInterval(Top.name) = 0
                          THEN "events" ELSE "loop"])
    /\ obs' = NoOperation
    /\ UNCHANGED <<hasImage, originalImage, preFilterImage, historyVars, cancelVars>>

\* a loop iteration whose updateProgress processes events after every unit
filterUnitAlwaysPump ==
    /\ stack # <<>>
    /\ Top.op = "cancelable"
    /\ Top.pc = "loop"
    /\ Top.i < UnitLimit(Top.name, currentImage)
    /\ ~cancelRequested
    /\ LET u == ProcessUnit(Top.name, currentImage, Top.result, Top.i, Top.arg)
           value == Top.i + 1
       IN  /\ currentImage' = u.img
           /\ stack' = WithTop([Top EXCEPT
                   !.result = u.result,
                   !.i = value,
                   !.units = @ + 1,
                   !.reports = @ + 1,
                   !.pc = "events"])
    /\ obs' = NoOperation
    /\ UNCHANGED <<hasImage, originalImage, preFilterImage, historyVars, cancelVars>>

\* one loop iteration whose poll finds the flag clear: the unit of work,
\* then updateProgress(i + 1, total, interval)
filterUnit ==
    /\ stack # <<>>
    /\ Top.op = "cancelable"
    /\ Top.pc = "loop"
    /\ Top.i < UnitLimit(Top.name, currentImage)
    /\ ~cancelRequested
    /\ LET u == ProcessUnit(Top.name, currentImage, Top.result, Top.i, Top.arg)
           value == Top.i + 1
       IN  /\ currentImage' = u.img
           /\ stack' = WithTop([Top EXCEPT
                   !.result = u.result,
                   !.i = value,
                   !.units = @ + 1,
                   !.reports = @ + 1,
                   !.pc = IF value % UpdateInterval(Top.name) = 0
                          THEN "events" ELSE "loop"])
    /\ obs' = NoOperation
    /\ UNCHANGED <<hasImage, originalImage, preFilterImage, historyVars, cancelVars>>

\* a poll finds the flag set: checkCancellation, return, and the rest of
\* runCancelableFilter
filterCancelled ==
    /\ stack # <<>>
    /\ Top.op = "cancelable"
    /\ Top.pc = "loop"
    /\ Top.i < UnitLimit(Top.name, currentImage)
    /\ cancelRequested
    /\ currentImage' = preFilterImage
    /\ cancelButtonVisible' = FALSE
    /\ stack' = Popped
    /\ obs' = [name |-> Top.name, outcome |-> "Cancelled", start |-> Top.start,
               final |-> preFilterImage, units |-> Top.units,
               limit |-> UnitLimit(Top.name, currentImage), reports |-> Top.reports,
               pushed |-> <<>>, undos |-> 0]
    /\ UNCHANGED <<hasImage, originalImage, preFilterImage, historyVars,
                   cancelRequested>>

\* the loop ends: an out-of-place filter assigns its result
filterCompleted ==
    /\ stack # <<>>
    /\ Top.op = "cancelable"
    /\ Top.pc = "loop"
    /\ ~(Top.i < UnitLimit(Top.name, currentImage))
    /\ currentImage' = IF InPlace(Top.name) THEN currentImage ELSE Top.result
    /\ cancelButtonVisible' = FALSE
    /\ stack' = Popped
    /\ obs' = [name |-> Top.name, outcome |-> "Completed", start |-> Top.start,
               final |-> currentImage', units |-> Top.units,
               limit |-> UnitLimit(Top.name, currentImage), reports |-> Top.reports,
               pushed |-> <<>>, undos |-> 0]
    /\ UNCHANGED <<hasImage, originalImage, preFilterImage, historyVars,
                   cancelRequested>>

\* an applyFlip that forgets saveStateForUndo
applyFlipNoSave ==
    /\ hasImage
    /\ CanNest
    /\ \E direction \in {"Horizontal", "Vertical"} :
        stack' = Append(stack, Frame("simple", "Flip", "events0", direction, EmptyImage))
    /\ UNCHANGED <<hasImage, imageVars, historyVars, cancelVars>>

\* applyFlip: the direction dialog, saveStateForUndo, then
\* ImageFilters::applyFlip up to its processEvents()
applyFlip ==
    /\ hasImage
    /\ CanNest
    /\ \E direction \in {"Horizontal", "Vertical"} :
        stack' = Append(stack, Frame("simple", "Flip", "events0", direction, EmptyImage))
    /\ history' = saveStateForUndo.history
    /\ hasUnsavedChanges' = saveStateForUndo.hasUnsavedChanges
    /\ hlog' = saveStateForUndo.hlog
    /\ UNCHANGED <<hasImage, imageVars, cancelVars>>

flipResume ==
    /\ stack # <<>>
    /\ Top.op = "simple"
    /\ Top.pc = "events0"
    /\ currentImage' = Flip(currentImage, Top.arg)
    /\ stack' = Popped
    /\ obs' = NoOperation
    /\ UNCHANGED <<hasImage, originalImage, preFilterImage, historyVars, cancelVars>>

\* mergeWithPath ending before any mutation: the second image fails to load
\* (the exception is caught), or the size-mismatch dialog is dismissed
mergeAborted ==
    /\ hasImage
    /\ history' = saveStateForUndo.history
    /\ hasUnsavedChanges' = saveStateForUndo.hasUnsavedChanges
    /\ hlog' = saveStateForUndo.hlog
    /\ UNCHANGED <<hasImage, imageVars, cancelVars, stack>>

\* mergeWithPath with a second image that loads; when the sizes differ the
\* user picks "Resize smaller image to match larger" or the overlap merge
mergeWithPath ==
    /\ hasImage
    /\ CanNest
    /\ \E mergeImage \in LoadableImages, resize \in BOOLEAN :
        LET differ == mergeImage.width # currentImage.width
                        \/ mergeImage.height # currentImage.height
            targetW == Max(currentImage.width, mergeImage.width)
            targetH == Max(currentImage.height, mergeImage.height)
            pc == IF differ /\ resize
                  THEN IF currentImage.width # targetW \/ currentImage.height # targetH
                       THEN "resizeCurrent" ELSE "resizeOther"
                  ELSE "merge"
        IN  /\ resize => differ
            /\ stack' = Append(stack, Frame("merge", "Merge", pc, <<targetW, targetH>>,
                                            mergeImage))
    /\ history' = saveStateForUndo.history
    /\ hasUnsavedChanges' = saveStateForUndo.hasUnsavedChanges
    /\ hlog' = saveStateForUndo.hlog
    /\ UNCHANGED <<hasImage, imageVars, cancelVars>>

\* the processEvents() of applyResize(currentImage), applyResize(mergeImage)
\* or applyMerge returns and that call does its work
mergeResume ==
    /\ stack # <<>>
    /\ Top.op = "merge"
    /\ \/ /\ Top.pc = "resizeCurrent"
          /\ currentImage' = Resize(currentImage, Top.arg[1], Top.arg[2])
          /\ stack' = WithTop([Top EXCEPT !.pc =
                 IF Top.other.width # Top.arg[1] \/ Top.other.height # Top.arg[2]
                 THEN "resizeOther" ELSE "merge"])
       \/ /\ Top.pc = "resizeOther"
          /\ stack' = WithTop([Top EXCEPT
                 !.other = Resize(Top.other, Top.arg[1], Top.arg[2]),
                 !.pc = "merge"])
          /\ UNCHANGED currentImage
       \/ /\ Top.pc = "merge"
          /\ currentImage' = Merge(currentImage, Top.other)
          /\ stack' = Popped
    /\ obs' = NoOperation
    /\ UNCHANGED <<hasImage, originalImage, preFilterImage, historyVars, cancelVars>>

\* one-pixel images, numbered by their brightness
Snapshot(n) == FillImage(1, 1, <<n, n, n>>)
SnapshotId(img) == Pixel(img, 0, 0)[1]

\* a filter passed to runSimpleFilter: one brightness step up
Brighten(img) == Snapshot(SnapshotId(img) + 1)

\* runSimpleFilter with the filter Brighten, when no event is pending at the
\* filter's processEvents(): saveStateForUndo, then the filter's result
runSimpleFilter ==
    /\ hasImage
    /\ history' = saveStateForUndo.history
    /\ hasUnsavedChanges' = saveStateForUndo.hasUnsavedChanges
    /\ hlog' = saveStateForUndo.hlog
    /\ currentImage' = Brighten(currentImage)
    /\ UNCHANGED <<hasImage, originalImage, preFilterImage, cancelVars, stack>>

(***************************************************************************)
(* The event loop.                                                         *)
(***************************************************************************)
\* a GUI event is delivered while the main loop is idle or while the running
\* handler is inside processEvents()
Dispatching ==
    /\ budget > 0
    /\ IF stack = <<>> THEN TRUE ELSE Top.pc \in EventPcs

Dispatch(handler) ==
    /\ Dispatching
    /\ handler
    /\ budget' = budget - 1
    /\ obs' = NoOperation

\* the running handler takes its next step
Continue(step) ==
    /\ step
    /\ UNCHANGED budget

Init ==
    /\ hasImage = FALSE
    /\ originalImage = EmptyImage
    /\ currentImage = EmptyImage
    /\ preFilterImage = EmptyImage
    /\ cancelRequested = FALSE
    /\ history = EmptyHistory
    /\ hasUnsavedChanges = FALSE
    /\ cancelButtonVisible \in BOOLEAN
    /\ stack = <<>>
    /\ budget = MaxEvents
    /\ hlog = <<>>
    /\ obs = NoOperation

Next ==
    \/ Dispatch(loadImage)
    \/ Dispatch(unloadImage)
    \/ Dispatch(saveImage)
    \/ Dispatch(resetImage)
    \/ Dispatch(undo)
    \/ Dispatch(redo)
    \/ Dispatch(cancelFilter)
    \/ Dispatch(performCropFromSelection)
    \/ Dispatch(applyGrayscale)
    \/ Dispatch(applyInfrared)
    \/ Dispatch(applyFlip)
    \/ Dispatch(mergeAborted)
    \/ Dispatch(mergeWithPath)
    \/ Continue(filterResume)
    \/ Continue(filterUnit)
    \/ Continue(filterCancelled)
    \/ Continue(filterCompleted)
    \/ Continue(flipResume)
    \/ Continue(mergeResume)

Spec == Init /\ [][Next]_vars

(***************************************************************************)
(* The same handlers on an image with more units than the update interval, *)
(* so that events are also processed in the middle of a filter's loop.     *)
(* The initial state is the one loadImage leaves.                          *)
(***************************************************************************)
InitRows ==
    /\ hasImage = TRUE
    /\ originalImage \in RowImages
    /\ currentImage = originalImage
    /\ preFilterImage = EmptyImage
    /\ cancelRequested = FALSE
    /\ history = EmptyHistory
    /\ hasUnsavedChanges = FALSE
    /\ cancelButtonVisible \in BOOLEAN
    /\ stack = <<>>
    /\ budget = MaxRowEvents
    /\ hlog = <<[op |-> "clear", ret |-> TRUE, before |-> EmptyImage,
                 after |-> originalImage]>>
    /\ obs = NoOperation

NextRows ==
    \/ Dispatch(cancelFilter)
    \/ Dispatch(applyGrayscale)
    \/ Dispatch(applyInfrared)
    \/ Dispatch(applyBlur)
    \/ Continue(filterResume)
    \/ Continue(filterUnit)
    \/ Continue(filterCancelled)
    \/ Continue(filterCompleted)

SpecRows == InitRows /\ [][NextRows]_vars

(***************************************************************************)
(* Loading, unloading and the history: the handlers that load, unload,     *)
(* snapshot, cancel and undo, over a longer run of events.  obs.name       *)
(* records the handler the last event was dispatched to.                   *)
(***************************************************************************)
\* loadImageFromPath when ImageIO::loadFromFile throws: the assignment to
\* originalImage is not reached and the catch block only reports the failure
loadImageFailed ==
    UNCHANGED <<hasImage, imageVars, historyVars, cancelVars, stack>>

Handle(handler, name) ==
    /\ Dispatching
    /\ handler
    /\ budget' = budget - 1
    /\ obs' = [NoOperation EXCEPT !.name = name]

InitReload ==
    /\ hasImage = FALSE
    /\ originalImage = EmptyImage
    /\ currentImage = EmptyImage
    /\ preFilterImage = EmptyImage
    /\ cancelRequested = FALSE
    /\ history = EmptyHistory
    /\ hasUnsavedChanges = FALSE
    /\ cancelButtonVisible = FALSE
    /\ stack = <<>>
    /\ budget = MaxReloadEvents
    /\ hlog = <<>>
    /\ obs = NoOperation

NextReload ==
    \/ Handle(loadImage, "loadImage")
    \/ Handle(loadImageFailed, "loadImageFailed")
    \/ Handle(unloadImage, "unloadImage")
    \/ Handle(undo, "undo")
    \/ Handle(redo, "redo")
    \/ Handle(cancelFilter, "cancelFilter")
    \/ Handle(applyGrayscale, "applyGrayscale")
    \/ Handle(applyFlip, "applyFlip")
    \/ Continue(filterResume)
    \/ Continue(filterUnit)
    \/ Continue(filterCancelled)
    \/ Continue(filterCompleted)
    \/ Continue(flipResume)

SpecReload == InitReload /\ [][NextReload]_vars

(***************************************************************************)
(* The history at its capacity: one-pixel images, each edit producing a    *)
(* buffer that differs from every earlier one.  The initial state is the   *)
(* one loadImage leaves.                                                   *)
(***************************************************************************)
StartOfRun == [NoOperation EXCEPT !.name = "run"]

\* obs after a call on the history: the buffers pushed since the history was
\* cleared, then the number of undos since the last push
HistoryRun(call) ==
    CASE call = "clear" -> StartOfRun
      [] call = "push" ->
            IF obs.name = "run" /\ obs.undos = 0
            THEN [obs EXCEPT !.pushed = Append(@, currentImage)]
            ELSE NoOperation
      [] call = "undo" ->
            IF obs.name = "run" /\ obs.undos <= HistoryCapacity
            THEN [obs EXCEPT !.undos = @ + 1]
            ELSE NoOperation
      [] OTHER -> NoOperation

HistoryStep(handler, call) ==
    /\ handler
    /\ obs' = HistoryRun(call)
    /\ UNCHANGED budget

InitHistory ==
    /\ hasImage = TRUE
    /\ originalImage = Snapshot(0)
    /\ currentImage = originalImage
    /\ preFilterImage = EmptyImage
    /\ cancelRequested = FALSE
    /\ history = EmptyHistory
    /\ hasUnsavedChanges = FALSE
    /\ cancelButtonVisible \in BOOLEAN
    /\ stack = <<>>
    /\ budget = 0
    /\ hlog = <<[op |-> "clear", ret |-> TRUE, before |-> EmptyImage,
                 after |-> originalImage]>>
    /\ obs = StartOfRun

NextHistory ==
    \/ /\ SnapshotId(currentImage) < MaxSnapshots
       /\ HistoryStep(runSimpleFilter, "push")
    \/ HistoryStep(undo, "undo")
    \/ HistoryStep(redo, "redo")
    \/ HistoryStep(loadImageFromPath({Snapshot(0)}), "clear")

SpecHistory == InitHistory /\ [][NextHistory]_vars

(***************************************************************************)
(* The Filter Engine called directly: ImageFilters methods applied to a    *)
(* buffer with no event pending at their processEvents() and the cancel    *)
(* flag clear.  obs records the call just made and the one before it.      *)
(***************************************************************************)
\* an image whose pixels all differ
Gradient(w, h) ==
    [width |-> w, height |-> h,
     data |-> [y \in 1..h |-> [x \in 1..w |->
        <<40 * x + 10 * y, 250 - 40 * x - 10 * y, 7 * y + x>>]]]

EngineImages ==
    {Gradient(2, 2), Gradient(3, 2), Gradient(2, 3), Gradient(3, 1), FillImage(2, 2, PixA)}

FlipDirections == {"Horizontal", "Vertical"}
RotateAngles == {"90", "180", "270"}
DarkLightChoices == {"dark", "light"}

\* the strings a caller may pass, recognized or not
DirectionStrings == FlipDirections \cup {"Diagonal"}
AngleStrings == RotateAngles \cup {"45"}
ChoiceStrings == DarkLightChoices \cup {"medium"}

\* the sizes a caller may ask applyResize for
ResizeTargets(img) ==
    {<<img.width, img.height>>, <<img.width + 1, img.height>>, <<1, 1>>,
     <<0, img.height>>, <<img.width, -1>>}

\* the strengths a caller may pass to applyBlur, inside 0..100 or not
EngineBlurStrengths == {-3, 0, 5, 150}

\* the values the clock may give applyTVFilter for its seed
ClockSeeds == {1, 2}

\* the calls: the method, its parameters, and the seed it reads from the clock
EngineCalls(img) ==
    [name : {"Flip"}, arg : DirectionStrings, seed : {0}]
      \cup [name : {"Rotate"}, arg : AngleStrings, seed : {0}]
      \cup [name : {"DarkAndLight"}, arg : ChoiceStrings, seed : {0}]
      \cup [name : {"Resize"}, arg : ResizeTargets(img), seed : {0}]
      \cup [name : {"Invert", "Grayscale"}, arg : {0}, seed : {0}]
      \cup [name : {"TV"}, arg : {0}, seed : ClockSeeds]
      \cup [name : {"Blur"}, arg : EngineBlurStrengths, seed : {0}]
      \cup [name : {"Merge"}, arg : LoadableImages, seed : {0}]

\* the method's effect: the buffer it leaves, and whether it caught an
\* exception (it then reports "Filter failed" on the status bar and returns)
EngineResult(call, img) ==
    CASE call.name = "Flip" ->
            [img |-> Flip(img, call.arg), outcome |-> "applied"]
      [] call.name = "Rotate" ->
            [img |-> Rotate(img, call.arg), outcome |-> "applied"]
      [] call.name = "DarkAndLight" ->
            [img |-> DarkAndLight(img, call.arg), outcome |-> "applied"]
      [] call.name = "Resize" ->
            IF ImageConstructor(call.arg[1], call.arg[2]).ok
            THEN [img |-> Resize(img, call.arg[1], call.arg[2]), outcome |-> "applied"]
            ELSE [img |-> img, outcome |-> "caught"]
      [] call.name = "TV" ->
            [img |-> RunToCompletion("TV", img, call.seed), outcome |-> "applied"]
      [] call.name = "Merge" ->
            [img |-> Merge(img, call.arg), outcome |-> "applied"]
      [] OTHER ->
            [img |-> RunToCompletion(call.name, img, call.arg), outcome |-> "applied"]

NoCall ==
    [name |-> "none", arg |-> 0, seed |-> 0, outcome |-> "none",
     start |-> EmptyImage, final |-> EmptyImage]

\* a 90-degree rotation that continues a run of them begun on the loaded image
ContinuesTurns(call) ==
    /\ call.name = "Rotate"
    /\ call.arg = "90"
    /\ obs.turns > 0 \/ currentImage = originalImage

engineCall ==
    \E call \in EngineCalls(currentImage) :
        /\ \/ budget > 0
           \/ ContinuesTurns(call) /\ obs.turns > 0 /\ obs.turns < MaxTurns
        /\ LET r == EngineResult(call, currentImage)
           IN  /\ currentImage' = r.img
               /\ obs' = [last |-> [name |-> call.name, arg |-> call.arg,
                                    seed |-> call.seed, outcome |-> r.outcome,
                                    start |-> currentImage, final |-> r.img],
                          prev |-> obs.last,
                          turns |-> IF ContinuesTurns(call) THEN obs.turns + 1 ELSE 0]
        /\ budget' = Max(budget - 1, 0)
        /\ UNCHANGED <<hasImage, originalImage, preFilterImage, historyVars, cancelVars,
                       stack>>

\* the caller goes back to the loaded image between two calls
engineReset ==
    /\ resetImage
    /\ obs' = [obs EXCEPT !.turns = 0]
    /\ UNCHANGED budget

InitEngine ==
    /\ hasImage = TRUE
    /\ originalImage \in EngineImages
    /\ currentImage = originalImage
    /\ preFilterImage = EmptyImage
    /\ cancelRequested = FALSE
    /\ history = EmptyHistory
    /\ hasUnsavedChanges = FALSE
    /\ cancelButtonVisible = FALSE
    /\ stack = <<>>
    /\ budget = MaxEngineCalls
    /\ hlog = <<>>
    /\ obs = [last |-> NoCall, prev |-> NoCall, turns |-> 0]

NextEngine ==
    \/ engineCall
    \/ engineReset

SpecEngine == InitEngine /\ [][NextEngine]_vars

(***************************************************************************)
(* applyFrame: each variant stamps a larger canvas; a later write to a     *)
(* pixel replaces an earlier one, so each pixel below is decided by the    *)
(* last loop of the variant that writes it.                                *)
(***************************************************************************)
\* (x, y) of the canvas lies on the source image pasted at (ox, oy)
OnImage(img, x, y, ox, oy) ==
    /\ x >= ox /\ x < ox + img.width
    /\ y >= oy /\ y < oy + img.height

\* "Simple Frame": blue canvas, image at (10, 10), then the inner white border
SimpleFrame(img) ==
    LET frameSize == 10
        innerFrame == 5
        gap == 5
        W == img.width + 2 * frameSize
        H == img.height + 2 * frameSize
        InLoop(x, y) ==
            /\ y >= frameSize + gap /\ y < frameSize + img.height - gap
            /\ x >= frameSize + gap /\ x < frameSize + img.width - gap
        isWhiteBorder(x, y) ==
            \/ x < frameSize + gap + innerFrame
            \/ x >= frameSize + img.width - gap - innerFrame
            \/ y < frameSize + gap + innerFrame
            \/ y >= frameSize + img.height - gap - innerFrame
    IN  [width |-> W, height |-> H,
         data |-> [yy \in 1..H |-> [xx \in 1..W |->
            LET x == xx - 1
                y == yy - 1
            IN  IF InLoop(x, y) /\ isWhiteBorder(x, y) THEN <<255, 255, 255>>
                ELSE IF OnImage(img, x, y, frameSize, frameSize)
                THEN Pixel(img, x - frameSize, y - frameSize)
                ELSE <<0, 0, 255>>]]]

\* "Double Border - White": dark canvas, outer and inner white bands, image
\* pasted last at (24, 24)
DoubleBorderFrame(img) ==
    LET outer == 14
        inner == 6
        gap == 4
        W == img.width + 2 * (outer + inner + gap)
        H == img.height + 2 * (outer + inner + gap)
        o == outer + gap + inner
        OuterBand(x, y) ==
            x < outer \/ x >= W - outer \/ y < outer \/ y >= H - outer
        InnerBand(x, y) ==
            /\ y >= outer + gap /\ y < H - (outer + gap)
            /\ x >= outer + gap /\ x < W - (outer + gap)
            /\ \/ x < o \/ x >= W - o \/ y < o \/ y >= H - o
    IN  [width |-> W, height |-> H,
         data |-> [yy \in 1..H |-> [xx \in 1..W |->
            LET x == xx - 1
                y == yy - 1
            IN  IF OnImage(img, x, y, o, o) THEN Pixel(img, x - o, y - o)
                ELSE IF InnerBand(x, y) \/ OuterBand(x, y) THEN <<255, 255, 255>>
                ELSE <<20, 20, 20>>]]]

\* "Solid Frame - <colour>": canvas of the colour, image at (20, 20)
SolidFrame(img, frameType) ==
    LET frame == 20
        color == CASE frameType = "Solid Frame - Blue"  -> <<0, 0, 255>>
                   [] frameType = "Solid Frame - Red"   -> <<255, 0, 0>>
                   [] frameType = "Solid Frame - Green" -> <<0, 255, 0>>
                   [] frameType = "Solid Frame - White" -> <<255, 255, 255>>
                   [] OTHER -> <<0, 0, 0>>
        W == img.width + 2 * frame
        H == img.height + 2 * frame
    IN  [width |-> W, height |-> H,
         data |-> [yy \in 1..H |-> [xx \in 1..W |->
            IF OnImage(img, xx - 1, yy - 1, frame, frame)
            THEN Pixel(img, xx - 1 - frame, yy - 1 - frame)
            ELSE color]]]

\* "Shadow Frame": dark canvas with a gradient to the bottom right, image at
\* (15, 15)
ShadowFrame(img) ==
    LET pad == 15
        shadow == 18
        W == img.width + pad + shadow
        H == img.height + pad + shadow
    IN  [width |-> W, height |-> H,
         data |-> [yy \in 1..H |-> [xx \in 1..W |->
            LET x == xx - 1
                y == yy - 1
                dx == Max(0, x - (pad + img.width))
                dy == Max(0, y - (pad + img.height))
                shade == Min(60, Max(dx, dy) * 6)
            IN  IF OnImage(img, x, y, pad, pad) THEN Pixel(img, x - pad, y - pad)
                ELSE <<20 + shade, 20 + shade, 20 + shade>>]]]

\* "Gold Decorated Frame": gold canvas, accent stripes, inner plate, image
\* pasted last at (45, 45)
GoldFrame(img) ==
    LET fw == 45
        W == img.width + 2 * fw
        H == img.height + 2 * fw
        Plate(x, y) ==
            /\ y >= fw - 6 /\ y < H - (fw - 6)
            /\ x >= fw - 6 /\ x < W - (fw - 6)
        Stripe(x, y) ==
            /\ y >= 3 /\ y < H - 3
            /\ x >= 3 /\ x < W - 3
            /\ \/ (x + y) % 11 = 0
               \/ (x - y + 1000) % 13 = 0
    IN  [width |-> W, height |-> H,
         data |-> [yy \in 1..H |-> [xx \in 1..W |->
            LET x == xx - 1
                y == yy - 1
            IN  IF OnImage(img, x, y, fw, fw) THEN Pixel(img, x - fw, y - fw)
                ELSE IF Plate(x, y) THEN <<240, 210, 120>>
                ELSE IF Stripe(x, y) THEN <<200, 160, 60>>
                ELSE <<180, 140, 40>>]]]

\* the else branch: the brown/beige decorated frame, image at (25, 25), the
\* band around it painted by its distance from the canvas edge
DecoratedFrame(img) ==
    LET frameWidth == 25
        outerColor == <<100, 70, 50>>
        innerColor == <<235, 225, 210>>
        accentColor == <<180, 140, 80>>
        W == img.width + 2 * frameWidth
        H == img.height + 2 * frameWidth
    IN  [width |-> W, height |-> H,
         data |-> [yy \in 1..H |-> [xx \in 1..W |->
            LET x == xx - 1
                y == yy - 1
                distFromEdge == Min(Min(x, y), Min(W - 1 - x, H - 1 - y))
            IN  IF OnImage(img, x, y, frameWidth, frameWidth)
                THEN Pixel(img, x - frameWidth, y - frameWidth)
                ELSE IF distFromEdge < 3 THEN outerColor
                ELSE IF distFromEdge \in {9, 12, 15} THEN accentColor
                ELSE IF distFromEdge < frameWidth - 4
                THEN IF (x + y) % 12 = 0 THEN accentColor ELSE innerColor
                ELSE IF distFromEdge < frameWidth - 1 THEN accentColor
                ELSE outerColor]]]

SolidFrameTypes ==
    {"Solid Frame - Blue", "Solid Frame - Red", "Solid Frame - Green",
     "Solid Frame - Black", "Solid Frame - White"}

\* the frame types of the "Add Frame" dialog, and the header's "Decorated Frame"
FrameTypes ==
    {"Simple Frame", "Double Border - White", "Shadow Frame", "Gold Decorated Frame",
     "Decorated Frame"} \cup SolidFrameTypes

FrameFilter(img, frameType) ==
    CASE frameType = "Simple Frame" -> SimpleFrame(img)
      [] frameType = "Double Border - White" -> DoubleBorderFrame(img)
      [] frameType \in SolidFrameTypes -> SolidFrame(img, frameType)
      [] frameType = "Shadow Frame" -> ShadowFrame(img)
      [] frameType = "Gold Decorated Frame" -> GoldFrame(img)
      [] OTHER -> DecoratedFrame(img)

\* images to frame: smaller than, as large as and larger than the inner
\* border's margins
Ramp(w, h) ==
    [width |-> w, height |-> h,
     data |-> [y \in 1..h |-> [x \in 1..w |-> <<10 * x + y, 200 - 10 * y, x + y>>]]]

FrameImages == {Ramp(2, 2), Ramp(10, 11), Ramp(11, 11), Ramp(12, 11)}

frameCall ==
    \E frameType \in FrameTypes :
        /\ currentImage.width <= MaxFrameWidth
        /\ LET r == FrameFilter(currentImage, frameType)
           IN  /\ currentImage' = r
               /\ obs' = [last |-> [name |-> "Frame", arg |-> frameType, seed |-> 0,
                                    outcome |-> "applied",
                                    start |-> currentImage, final |-> r],
                          prev |-> obs.last,
                          turns |-> 0]
        /\ UNCHANGED <<hasImage, originalImage, preFilterImage, historyVars, cancelVars,
                       stack, budget>>

InitFrame ==
    /\ hasImage = TRUE
    /\ originalImage \in FrameImages
    /\ currentImage = originalImage
    /\ preFilterImage = EmptyImage
    /\ cancelRequested = FALSE
    /\ history = EmptyHistory
    /\ hasUnsavedChanges = FALSE
    /\ cancelButtonVisible = FALSE
    /\ stack = <<>>
    /\ budget = 0
    /\ hlog = <<>>
    /\ obs = [last |-> NoCall, prev |-> NoCall, turns |-> 0]

NextFrame ==
    \/ frameCall
    \/ engineReset

SpecFrame == InitFrame /\ [][NextFrame]_vars

(***************************************************************************)
(* applyEdges: luma grayscale, 5x5 Gaussian blur, 3x3 Sobel, threshold.    *)
(* `blurred` and `edge` are constructed by Image(width, height) and only   *)
(* partly written; a pixel no loop has written is marked Unwritten and     *)
(* holds whatever the constructor left there.                              *)
(***************************************************************************)
Unwritten == <<-1, -1, -1>>

\* what Image(width, height) may leave in a sample it does not set
ConstructorFills == {0, 90, 255}

\* the buffer as a reader sees it when the constructor left `fill` in it
Materialize(img, fill) ==
    [img EXCEPT !.data =
        [y \in 1..img.height |-> [x \in 1..img.width |->
            IF img.data[y][x] = Unwritten THEN <<fill, fill, fill>> ELSE img.data[y][x]]]]

\* (int)(0.299 * r + 0.587 * g + 0.114 * b)
LumaGray(p) == (299 * p[1] + 587 * p[2] + 114 * p[3]) \div 1000

EdgesGray(img) ==
    [img EXCEPT !.data =
        [y \in 1..img.height |-> [x \in 1..img.width |->
            LET grayVal == LumaGray(img.data[y][x]) IN <<grayVal, grayVal, grayVal>>]]]

GaussKernel ==
    << <<1, 4, 6, 4, 1>>, <<4, 16, 24, 16, 4>>, <<6, 24, 36, 24, 6>>,
       <<4, 16, 24, 16, 4>>, <<1, 4, 6, 4, 1>> >>

RECURSIVE WeightedSum(_, _, _, _, _, _)
\* sum over the offsets in S of channel 0 of img at (x+kx, y+ky) times
\* kernel[ky+r+1][kx+r+1]
WeightedSum(img, x, y, kernel, r, S) ==
    IF S = {} THEN 0
    ELSE LET k == CHOOSE k \in S : TRUE
         IN  Pixel(img, x + k[1], y + k[2])[1] * kernel[k[2] + r + 1][k[1] + r + 1]
               + WeightedSum(img, x, y, kernel, r, S \ {k})

\* a blur pass that also fills the ring next to its border, with the gray value
EdgesBlurredOneBorder(gray) ==
    [gray EXCEPT !.data =
        [yy \in 1..gray.height |-> [xx \in 1..gray.width |->
            LET x == xx - 1
                y == yy - 1
            IN  IF /\ y >= 2 /\ y < gray.height - 2
                   /\ x >= 2 /\ x < gray.width - 2
                THEN LET blurredVal ==
                            WeightedSum(gray, x, y, GaussKernel, 2,
                                        (-2..2) \X (-2..2)) \div 256
                     IN  <<blurredVal, blurredVal, blurredVal>>
                ELSE IF /\ y >= 1 /\ y < gray.height - 1
                        /\ x >= 1 /\ x < gray.width - 1
                THEN gray.data[yy][xx]
                ELSE Unwritten]]]

\* the Gaussian pass: for y in 2..height-3, x in 2..width-3
EdgesBlurred(gray) ==
    [gray EXCEPT !.data =
        [yy \in 1..gray.height |-> [xx \in 1..gray.width |->
            LET x == xx - 1
                y == yy - 1
            IN  IF /\ y >= 2 /\ y < gray.height - 2
                   /\ x >= 2 /\ x < gray.width - 2
                THEN LET blurredVal ==
                            WeightedSum(gray, x, y, GaussKernel, 2,
                                        (-2..2) \X (-2..2)) \div 256
                     IN  <<blurredVal, blurredVal, blurredVal>>
                ELSE Unwritten]]]

SobelX == << <<-1, 0, 1>>, <<-2, 0, 2>>, <<-1, 0, 1>> >>
SobelY == << <<-1, -2, -1>>, <<0, 0, 0>>, <<1, 2, 1>> >>

\* the Sobel pass over the blurred buffer as read: for y in 1..height-2,
\* x in 1..width-2; (int)sqrt(gx*gx + gy*gy) > 50 iff gx*gx + gy*gy >= 51*51
EdgesSobel(blurred) ==
    [blurred EXCEPT !.data =
        [yy \in 1..blurred.height |-> [xx \in 1..blurred.width |->
            LET x == xx - 1
                y == yy - 1
            IN  IF /\ y >= 1 /\ y < blurred.height - 1
                   /\ x >= 1 /\ x < blurred.width - 1
                THEN LET gx == WeightedSum(blurred, x, y, SobelX, 1, (-1..1) \X (-1..1))
                         gy == WeightedSum(blurred, x, y, SobelY, 1, (-1..1) \X (-1..1))
                         edgeVal == IF gx * gx + gy * gy >= 51 * 51 THEN 0 ELSE 255
                     IN  <<edgeVal, edgeVal, edgeVal>>
                ELSE Unwritten]]]

\* images with a dark left half and a bright right half
Step(w, h) ==
    [width |-> w, height |-> h,
     data |-> [yy \in 1..h |-> [xx \in 1..w |->
        IF 2 * (xx - 1) < w
        THEN <<20 + (yy - 1), 30, 40 + (xx - 1)>>
        ELSE <<200, 180 - (yy - 1), 220 - (xx - 1)>>]]]

EdgeImages == {Step(2, 2), Step(3, 3), Step(5, 5), Step(6, 5), Step(7, 7)}

\* applyEdges(currentImage); fillB and fillE are what the constructor left in
\* `blurred` and in `edge`
edgesCall ==
    \E fillB \in ConstructorFills, fillE \in ConstructorFills :
        /\ budget > 0
        /\ LET blurred == EdgesBlurred(EdgesGray(currentImage))
               edge == EdgesSobel(Materialize(blurred, fillB))
               r == Materialize(edge, fillE)
           IN  /\ currentImage' = r
               /\ obs' = [last |-> [name |-> "Edges", arg |-> fillB, seed |-> 0,
                                    outcome |-> "applied",
                                    start |-> currentImage, final |-> r],
                          prev |-> obs.last,
                          turns |-> 0,
                          blurred |-> blurred,
                          edge |-> edge]
        /\ budget' = budget - 1
        /\ UNCHANGED <<hasImage, originalImage, preFilterImage, historyVars, cancelVars,
                       stack>>

InitEdges ==
    /\ hasImage = TRUE
    /\ originalImage \in EdgeImages
    /\ currentImage = originalImage
    /\ preFilterImage = EmptyImage
    /\ cancelRequested = FALSE
    /\ history = EmptyHistory
    /\ hasUnsavedChanges = FALSE
    /\ cancelButtonVisible = FALSE
    /\ stack = <<>>
    /\ budget = MaxEdgeCalls
    /\ hlog = <<>>
    /\ obs = [last |-> NoCall, prev |-> NoCall, turns |-> 0,
              blurred |-> EmptyImage, edge |-> EmptyImage]

NextEdges ==
    \/ edgesCall
    \/ engineReset

SpecEdges == InitEdges /\ [][NextEdges]_vars

(***************************************************************************)
(* The immediate and the cancelable forms of emboss, double vision, oil    *)
(* painting, enhance sunlight and fish-eye: one filter and its parameters, *)
(* called in either form on the buffer with no event pending.  The         *)
(* cancelable forms run row by row through RunUnits; the immediate oil     *)
(* painting and sunlight run column by column.                             *)
(***************************************************************************)
\* applyEmboss(currentImage): y < height - 1, x < width - 1
EmbossImmediate(img, embossed) ==
    [embossed EXCEPT !.data =
        [yy \in 1..img.height |-> [xx \in 1..img.width |->
            IF yy - 1 < img.height - 1 /\ xx - 1 < img.width - 1
            THEN EmbossPixel(img, xx - 1, yy - 1)
            ELSE embossed.data[yy][xx]]]]

\* applyDoubleVision(currentImage, offset)
DoubleVisionImmediate(img, out, offset) ==
    [out EXCEPT !.data =
        [yy \in 1..img.height |-> [xx \in 1..img.width |->
            DoubleVisionPixel(img, xx - 1, yy - 1, offset)]]]

\* applyFishEye(currentImage)
FishEyeImmediate(img, out) ==
    [out EXCEPT !.data =
        [yy \in 1..img.height |-> [xx \in 1..img.width |->
            FishEyePixel(img, xx - 1, yy - 1)]]]

\* column i of the immediate oil painting or sunlight
ImmediateColumn(f, img, result, i, arg) ==
    [result EXCEPT !.data =
        [yy \in 1..img.height |-> [result.data[yy] EXCEPT ![i + 1] =
            IF f = "OilPainting"
            THEN OilPaintingPixel(img, i, yy - 1, arg[1], arg[2])
            ELSE SunlightPixel(img.data[yy][i + 1], @, ImageChannels)]]]

\* the outer loop over the columns, from column i on
RECURSIVE ImmediateColumns(_, _, _, _, _)
ImmediateColumns(f, img, result, i, arg) ==
    IF i < img.width
    THEN ImmediateColumns(f, img, ImmediateColumn(f, img, result, i, arg), i + 1, arg)
    ELSE result

\* the buffer the immediate form of `name` leaves in currentImage
ImmediateResult(name, img, arg, fill) ==
    CASE name = "Emboss"       -> EmbossImmediate(img, Constructed(img, fill))
      [] name = "DoubleVision" -> DoubleVisionImmediate(img, Constructed(img, fill), arg)
      [] name = "FishEye"      -> FishEyeImmediate(img, Constructed(img, fill))
      [] OTHER                 -> ImmediateColumns(name, img, Constructed(img, fill), 0, arg)

\* the buffer the cancelable form leaves when the flag stays clear
CancelableResult(name, img, arg, fill) ==
    RunUnits(name, img, Constructed(img, fill), 0, arg)

FormFilters == {"Emboss", "DoubleVision", "OilPainting", "Sunlight", "FishEye"}

\* the parameters a caller may pass: offsets, <<radius, intensity>>
FormArgs(name) ==
    CASE name = "DoubleVision" -> {-1, 1, 15}
      [] name = "OilPainting"  -> {<<0, 30>>, <<1, 30>>, <<1, 300>>}
      [] OTHER                 -> {0}

Tile(w, h) ==
    [width |-> w, height |-> h,
     data |-> [yy \in 1..h |-> [xx \in 1..w |->
        <<30 * (xx - 1) + 7 * (yy - 1) + 3,
          200 - 20 * (xx - 1) - 9 * (yy - 1),
          50 * ((xx + yy) % 2) + 4>>]]]

FormImages == {Tile(2, 2), Tile(3, 3), Tile(4, 3), Tile(3, 4), Tile(4, 4)}

\* one form of the filter obs.name, called on currentImage with the parameters
\* obs.arg; obs.fill is what the Image constructor leaves in a new buffer
formCall(form, r) ==
    /\ budget > 0
    /\ currentImage' = r
    /\ obs' = [obs EXCEPT
                 !.last = [name |-> obs.name, arg |-> obs.arg, seed |-> 0,
                           outcome |-> "applied",
                           start |-> currentImage, final |-> r,
                           form |-> form],
                 !.prev = obs.last,
                 !.turns = 0]
    /\ budget' = budget - 1
    /\ UNCHANGED <<hasImage, originalImage, preFilterImage, historyVars,
                   cancelVars, stack>>

immediateCall ==
    formCall("immediate", ImmediateResult(obs.name, currentImage, obs.arg, obs.fill))

cancelableCall ==
    formCall("cancelable", CancelableResult(obs.name, currentImage, obs.arg, obs.fill))

InitForms ==
    /\ hasImage = TRUE
    /\ originalImage \in FormImages
    /\ currentImage = originalImage
    /\ preFilterImage = EmptyImage
    /\ cancelRequested = FALSE
    /\ history = EmptyHistory
    /\ hasUnsavedChanges = FALSE
    /\ cancelButtonVisible = FALSE
    /\ stack = <<>>
    /\ budget = MaxFormCalls
    /\ hlog = <<>>
    /\ \E fill \in ConstructorFills, name \in FormFilters :
          \E arg \in FormArgs(name) :
              LET none == [name |-> "none", arg |-> 0, seed |-> 0, outcome |-> "none",
                           start |-> EmptyImage, final |-> EmptyImage, form |-> "none"]
              IN  obs = [last |-> none, prev |-> none, turns |-> 0,
                         fill |-> fill, name |-> name, arg |-> arg]

NextForms ==
    \/ immediateCall
    \/ cancelableCall
    \/ engineReset

SpecForms == InitForms /\ [][NextForms]_vars

(***************************************************************************)
(* Properties.                                                             *)
(***************************************************************************)
\* the k-th last call made on the history (0 is the last one)
LogAt(k) == hlog[Len(hlog) - k]

RunningCancelable == \E k \in 1..Len(stack) : stack[k].op = "cancelable"

\* C1: a cancelable filter that ends Cancelled leaves the buffer equal,
\* pixel for pixel and in its dimensions, to the buffer it had when the
\* operation started.
C1_CancelRestoresBuffer ==
    obs.outcome = "Cancelled" => currentImage = obs.start

\* C2: when the caller snapshots a buffer S (saveStateForUndo) and the next
\* call on the history is undo, undo returns true and leaves the buffer equal
\* to S; when the call after that is redo, redo returns true and leaves the
\* buffer equal to what it was just before the undo.
C2_UndoRedoRoundTrip ==
    /\ (/\ Len(hlog) >= 2
        /\ LogAt(1).op = "saveStateForUndo"
        /\ LogAt(0).op = "undo")
       => (LogAt(0).ret /\ LogAt(0).after = LogAt(1).before)
    /\ (/\ Len(hlog) >= 3
        /\ LogAt(2).op = "saveStateForUndo"
        /\ LogAt(1).op = "undo"
        /\ LogAt(0).op = "redo")
       => (LogAt(0).ret /\ LogAt(0).after = LogAt(1).before)

\* a snapshot, a mutation, an undo and a redo have happened in that order
C2_Witness ==
    /\ Len(hlog) >= 3
    /\ LogAt(2).op = "saveStateForUndo"
    /\ LogAt(1).op = "undo"
    /\ LogAt(0).op = "redo"
    /\ LogAt(1).before # LogAt(2).before
    /\ currentImage = LogAt(1).before

\* C3: the undo stack never holds more than HistoryCapacity entries, after
\* any sequence of pushes, undos, redos and clears, the entries that redo
\* pushes back included.
C3_UndoStackBounded ==
    Len(history.undo) <= HistoryCapacity

\* more buffers than the capacity have been pushed and the stack is full
C3_Witness ==
    /\ obs.name = "run"
    /\ Len(obs.pushed) > HistoryCapacity
    /\ Len(history.undo) = HistoryCapacity

\* C4: after HistoryCapacity + 1 pushes onto an empty history, the j-th of the
\* following undos returns true and yields the (HistoryCapacity + 2 - j)-th
\* pushed buffer for j up to HistoryCapacity, the next undo returns false and
\* changes nothing, and the first pushed buffer is never returned.
C4_EvictionOrder ==
    (/\ obs.name = "run"
     /\ Len(obs.pushed) = HistoryCapacity + 1
     /\ obs.undos >= 1)
    => /\ LogAt(0).op = "undo"
       /\ IF obs.undos <= HistoryCapacity
          THEN /\ LogAt(0).ret
               /\ currentImage = obs.pushed[HistoryCapacity + 2 - obs.undos]
          ELSE /\ ~LogAt(0).ret
               /\ currentImage = LogAt(0).before
               /\ currentImage = obs.pushed[2]
       /\ currentImage # obs.pushed[1]

\* the undo after the HistoryCapacity successful ones has been made
C4_Witness ==
    /\ obs.name = "run"
    /\ Len(obs.pushed) = HistoryCapacity + 1
    /\ obs.undos = HistoryCapacity + 1

\* C5: right after a snapshot is pushed the redo stack is empty, whatever it
\* held before, and a redo that follows returns false and leaves the buffer
\* unchanged.
C5_BranchInvalidation ==
    /\ (Len(hlog) >= 1 /\ LogAt(0).op = "saveStateForUndo") => ~canRedo(history)
    /\ (/\ Len(hlog) >= 2
        /\ LogAt(1).op = "saveStateForUndo"
        /\ LogAt(0).op = "redo")
       => (~LogAt(0).ret /\ LogAt(0).after = LogAt(0).before)

\* a snapshot has been pushed right after a successful undo
C5_Witness ==
    /\ Len(hlog) >= 2
    /\ LogAt(1).op = "undo"
    /\ LogAt(1).ret
    /\ LogAt(0).op = "saveStateForUndo"
    /\ ~canRedo(history)

\* C6: undo returns false exactly when the undo stack is empty, and then the
\* buffer and both stacks are unchanged; redo likewise for the redo stack.
C6_FalseExactlyWhenEmpty ==
    [][/\ undo => /\ hlog'[Len(hlog')].ret = canUndo(history)
                  /\ ~canUndo(history) => UNCHANGED <<currentImage, history>>
       /\ redo => /\ hlog'[Len(hlog')].ret = canRedo(history)
                  /\ ~canRedo(history) => UNCHANGED <<currentImage, history>>]_vars

\* an undo on an empty undo stack has been made with an image loaded
C6_Witness ==
    /\ hasImage
    /\ Len(hlog) >= 1
    /\ LogAt(0).op = "undo"
    /\ ~LogAt(0).ret
    /\ ~canUndo(history)

C8_NoMutationNoEntry ==
    [][/\ filterCancelled => /\ history' = Top.history0
                             /\ hasUnsavedChanges' = Top.unsaved0
       /\ mergeAborted => UNCHANGED <<history, hasUnsavedChanges>>]_vars

\* the units an operation has processed are the indices below its loop index;
\* an operation that ends Cancelled stopped below its limit, one that ends
\* Completed has processed every index below it
C9_Outcomes ==
    /\ \A k \in 1..Len(stack) :
          stack[k].op = "cancelable" => stack[k].units = stack[k].i
    /\ obs.outcome = "Cancelled" => obs.units < obs.limit
    /\ obs.outcome = "Completed" => obs.units >= obs.limit

\* a step in which the running operation processes a unit
C9_UnitStep ==
    /\ stack # <<>>
    /\ Len(stack') = Len(stack)
    /\ Top.op = "cancelable"
    /\ stack'[Len(stack')].units > Top.units

C10_FlagStaysSet ==
    [][(cancelRequested /\ RunningCancelable) => cancelRequested']_vars

\* C11: while a cancelable filter is running, every step that writes the
\* current buffer or the pre-operation snapshot is a step of that filter
\* itself: not a handler dispatched meanwhile, and not a step of a handler
\* that was started on top of it.
C11_ExclusiveWriteAccess ==
    [][(/\ RunningCancelable
        /\ <<currentImage, preFilterImage>>' # <<currentImage, preFilterImage>>)
       => (/\ budget' = budget
           /\ \A k \in 1..(Len(stack) - 1) : stack[k].op # "cancelable")]_vars

\* the running operation after a step that keeps it running
TopAfter == stack'[Len(stack')]

\* the range the operation gave the progress bar when it started
ProgressTotal(f) == UnitLimit(f.name, f.start)

\* C12: within one cancelable operation the total of the progress reports is
\* the one set at the start, and the reported values rise strictly and never
\* exceed it.
C12_ProgressWithinTotal ==
    [][C9_UnitStep =>
          /\ TopAfter.i > Top.i
          /\ TopAfter.i <= ProgressTotal(TopAfter)
          /\ UnitLimit(TopAfter.name, currentImage') = ProgressTotal(TopAfter)]_vars

UnrecognizedString(call) ==
    \/ call.name = "Flip" /\ call.arg \notin FlipDirections
    \/ call.name = "Rotate" /\ call.arg \notin RotateAngles
    \/ call.name = "DarkAndLight" /\ call.arg \notin DarkLightChoices

\* C14: flip, rotate and dark/light called with a string that is not one of
\* their recognized values fail with InvalidParameter and leave the buffer
\* unchanged.
C14_InvalidParameterRejected ==
    UnrecognizedString(obs.last)
    => (obs.last.outcome = "InvalidParameter" /\ obs.last.final = obs.last.start)

\* C15: resize called with a width or height that is zero or negative fails
\* with InvalidDimensions, surfaced to the caller, and leaves the buffer
\* unchanged.
C15_InvalidDimensionsRejected ==
    (/\ obs.last.name = "Resize"
     /\ obs.last.arg[1] <= 0 \/ obs.last.arg[2] <= 0)
    => (obs.last.outcome = "InvalidDimensions" /\ obs.last.final = obs.last.start)

\* two calls of the same method with equal parameters on equal buffers
SameCall(a, b) ==
    /\ a.name # "none"
    /\ a.name = b.name
    /\ a.arg = b.arg
    /\ a.start = b.start

C17_InvertInvolution ==
    /\ obs.last.name = "Invert" =>
          /\ obs.last.final.width = obs.last.start.width
          /\ obs.last.final.height = obs.last.start.height
          /\ \A x \in 0..(obs.last.start.width - 1), y \in 0..(obs.last.start.height - 1),
                c \in 1..3 :
                Pixel(obs.last.final, x, y)[c] = 255 - Pixel(obs.last.start, x, y)[c]
    /\ (/\ obs.prev.name = "Invert"
        /\ obs.last.name = "Invert"
        /\ obs.last.start = obs.prev.final)
       => obs.last.final = obs.prev.start

\* invert has been applied twice in a row
C17_Witness ==
    /\ obs.prev.name = "Invert"
    /\ obs.last.name = "Invert"
    /\ obs.last.start = obs.prev.final
    /\ obs.last.start # obs.prev.start
    /\ currentImage = obs.prev.start

\* C18: a 90-degree rotation swaps width and height, and four of them in a
\* row give back the buffer they started from.
C18_FourRotations ==
    /\ (obs.last.name = "Rotate" /\ obs.last.arg = "90") =>
          /\ obs.last.final.width = obs.last.start.height
          /\ obs.last.final.height = obs.last.start.width
    /\ obs.turns = 4 => currentImage = originalImage

\* four 90-degree rotations of an image that is not square have been made
C18_Witness ==
    /\ obs.turns = 4
    /\ originalImage.width # originalImage.height
    /\ obs.last.start # originalImage

\* C19: rotate 180 leaves the dimensions and puts at (x, y) the input sample
\* of (width-1-x, height-1-y), for every width and height.
C19_Rotate180PointReflection ==
    (obs.last.name = "Rotate" /\ obs.last.arg = "180") =>
        /\ obs.last.final.width = obs.last.start.width
        /\ obs.last.final.height = obs.last.start.height
        /\ \A x \in 0..(obs.last.start.width - 1), y \in 0..(obs.last.start.height - 1) :
              Pixel(obs.last.final, x, y)
                 = Pixel(obs.last.start, obs.last.start.width - 1 - x,
                         obs.last.start.height - 1 - y)

\* C20: resizing a W x H buffer to W x H gives back the buffer, sample for
\* sample.
C20_ResizeIdentity ==
    (/\ obs.last.name = "Resize"
     /\ obs.last.arg = <<obs.last.start.width, obs.last.start.height>>)
    => (obs.last.outcome = "applied" /\ obs.last.final = obs.last.start)

\* a buffer has been resized to its own size
C20_Witness ==
    /\ obs.last.name = "Resize"
    /\ obs.last.arg = <<obs.last.start.width, obs.last.start.height>>
    /\ obs.last.start.width > 1
    /\ obs.last.start.height > 1
    /\ currentImage = obs.last.final

\* C21: a completed grayscale run leaves the dimensions and gives every pixel
\* R' = G' = B' = floor((R+G+B)/3) of the input pixel; a buffer that is
\* (100,150,200) everywhere becomes 150 everywhere.
C21_GrayscaleMean ==
    obs.last.name = "Grayscale" =>
        /\ obs.last.final.width = obs.last.start.width
        /\ obs.last.final.height = obs.last.start.height
        /\ \A x \in 0..(obs.last.start.width - 1), y \in 0..(obs.last.start.height - 1) :
              LET p == Pixel(obs.last.start, x, y)
                  q == Pixel(obs.last.final, x, y)
              IN  /\ q[1] = q[2] /\ q[2] = q[3]
                  /\ 3 * q[1] <= p[1] + p[2] + p[3]
                  /\ p[1] + p[2] + p[3] < 3 * q[1] + 3
        /\ obs.last.start = FillImage(2, 2, <<100, 150, 200>>)
              => obs.last.final = FillImage(2, 2, <<150, 150, 150>>)

\* grayscale has run on a buffer with a pixel whose mean is not an integer
C21_Witness ==
    /\ obs.last.name = "Grayscale"
    /\ obs.last.outcome = "applied"
    /\ \E x \in 0..(obs.last.start.width - 1), y \in 0..(obs.last.start.height - 1) :
          LET p == Pixel(obs.last.start, x, y)
          IN  (p[1] + p[2] + p[3]) % 3 = 2
    /\ currentImage = obs.last.final
    /\ currentImage # obs.last.start

PasteOffset(frameType) ==
    CASE frameType = "Simple Frame" -> 10
      [] frameType = "Double Border - White" -> 24
      [] frameType \in SolidFrameTypes -> 20
      [] frameType = "Shadow Frame" -> 15
      [] frameType = "Gold Decorated Frame" -> 45
      [] OTHER -> 25

\* C23: for every frame type and every source image the canvas is larger than
\* the source in both dimensions and holds the source unmodified at the
\* variant's paste offset.
C23_SourcePastedUnmodified ==
    obs.last.name = "Frame" =>
        LET src == obs.last.start
            out == obs.last.final
            o == PasteOffset(obs.last.arg)
        IN  /\ out.width > src.width
            /\ out.height > src.height
            /\ \A x \in 0..(src.width - 1), y \in 0..(src.height - 1) :
                  Pixel(out, x + o, y + o) = Pixel(src, x, y)

\* C24: after a merge the image has the smaller width and the smaller height
\* of the two inputs, and every sample is the integer average of the two
\* inputs' samples at its position.
C24_MergeSmallerDimensions ==
    obs.last.name = "Merge" =>
        LET a == obs.last.start
            b == obs.last.arg
            out == obs.last.final
        IN  /\ out.width = (IF a.width < b.width THEN a.width ELSE b.width)
            /\ out.height = (IF a.height < b.height THEN a.height ELSE b.height)
            /\ \A x \in 0..(out.width - 1), y \in 0..(out.height - 1), c \in 1..3 :
                  Pixel(out, x, y)[c] = (Pixel(a, x, y)[c] + Pixel(b, x, y)[c]) \div 2

\* (x, y) is at least d pixels away from every side of img
Inside(img, x, y, d) ==
    /\ x >= d /\ x <= img.width - 1 - d
    /\ y >= d /\ y <= img.height - 1 - d

\* the squared Sobel gradient magnitude at (x, y) of the single-channel view
\* of buffer b
GradientSquare(b, x, y) ==
    LET v(i, j) == Pixel(b, x + i, y + j)[1]
        gx == (v(1, -1) + 2 * v(1, 0) + v(1, 1)) - (v(-1, -1) + 2 * v(-1, 0) + v(-1, 1))
        gy == (v(-1, 1) + 2 * v(0, 1) + v(1, 1)) - (v(-1, -1) + 2 * v(0, -1) + v(1, -1))
    IN  gx * gx + gy * gy

\* the Sobel pass writes every pixel except the outermost ring, 0 where the
\* magnitude of the gradient of the blurred buffer exceeds 50, 255 elsewhere
SobelPassAsSpecified ==
    LET read == Materialize(obs.blurred, obs.last.arg)
    IN  \A x \in 0..(obs.edge.width - 1), y \in 0..(obs.edge.height - 1) :
           IF Inside(obs.edge, x, y, 1)
           THEN LET v == IF GradientSquare(read, x, y) > 50 * 50 + 2 * 50 THEN 0 ELSE 255
                IN  /\ Pixel(obs.edge, x, y) = <<v, v, v>>
                    /\ Pixel(obs.last.final, x, y) = <<v, v, v>>
           ELSE Pixel(obs.edge, x, y) = Unwritten

Handled(name) == obs'.name = name /\ budget' = budget - 1

\* C26: a successful load and an unload leave both history stacks empty; a
\* load that fails leaves the buffer, the has-image flag and the history as
\* they were; and no undo or redo brings back an image that was loaded before
\* the one now loaded.
C26_LoadClearsHistory ==
    /\ [][(Handled("loadImage") \/ Handled("unloadImage"))
             => (~canUndo(history') /\ ~canRedo(history'))]_vars
    /\ [][Handled("loadImageFailed")
             => UNCHANGED <<currentImage, hasImage, history>>]_vars
    /\ [][((Handled("undo") \/ Handled("redo")) /\ history' # history)
             => currentImage' \notin (LoadableImages \ {originalImage})]_vars

\* C27: the undo entries and the redo entries together never number more
\* than HistoryCapacity, after any sequence of pushes, undos, redos and
\* clears; so a redo that returns true puts its entry on top of the undo
\* stack and every entry that was there stays.
C27_StacksBoundedTogether ==
    /\ [](Len(history.undo) + Len(history.redo) <= HistoryCapacity)
    /\ [][(hlog' # hlog /\ hlog'[Len(hlog')].op = "redo" /\ hlog'[Len(hlog')].ret)
             => (/\ history'.undo = Append(history.undo, currentImage)
                 /\ Len(history'.redo) = Len(history.redo) - 1)]_vars

\* a redo has been made with the two stacks holding HistoryCapacity entries
C27_Witness ==
    /\ LogAt(0).op = "redo"
    /\ LogAt(0).ret
    /\ Len(history.undo) + Len(history.redo) = HistoryCapacity
    /\ Len(history.undo) = HistoryCapacity

\* this step starts an operation through runCancelableFilter
StartsCancelable ==
    /\ Len(stack') = Len(stack) + 1
    /\ stack'[Len(stack')].op = "cancelable"

\* C28: an operation started through runCancelableFilter begins with the
\* cancel flag clear, whatever the flag was before; the flag is then raised
\* only by a cancel request, an event that changes nothing else; and an
\* operation ends Cancelled only at a poll that finds the flag raised.  So an
\* operation ends Cancelled only if a cancel was requested after it started.
C28_StaleCancelDropped ==
    /\ [][StartsCancelable => ~cancelRequested']_vars
    /\ [][(cancelRequested' /\ ~cancelRequested)
             => (/\ budget' = budget - 1
                 /\ UNCHANGED <<stack, currentImage, preFilterImage, history>>)]_vars
    /\ [][(obs'.outcome = "Cancelled" /\ Len(stack') < Len(stack))
             => cancelRequested]_vars

\* two events have been dispatched, a cancel request and then the start of one
\* operation (a single snapshot was pushed), and the operation has ended
\* Completed: a cancel requested during it would have been found by a poll
C28_Witness ==
    /\ obs.outcome = "Completed"
    /\ stack = <<>>
    /\ budget = MaxRowEvents - 2
    /\ Len(history.undo) = 1
    /\ ~cancelRequested
    /\ obs.units = obs.limit

\* C29: the immediate and the cancelable form of emboss, double vision, oil
\* painting, enhance sunlight and fish-eye, called with equal parameters on
\* equal buffers and not cancelled, leave equal buffers
C29_FormsEquivalent ==
    (/\ obs.last.name \in FormFilters
     /\ obs.prev.name = obs.last.name
     /\ obs.prev.arg = obs.last.arg
     /\ obs.prev.start = obs.last.start
     /\ obs.prev.form # obs.last.form)
        => obs.prev.final = obs.last.final

\* the oil painting has been run in its immediate and then in its cancelable
\* form on the same buffer, and changed it
C29_Witness ==
    /\ obs.last.name = "OilPainting"
    /\ obs.prev.name = "OilPainting"
    /\ obs.prev.arg = obs.last.arg
    /\ obs.prev.start = obs.last.start
    /\ obs.prev.form = "immediate"
    /\ obs.last.form = "cancelable"
    /\ obs.last.final # obs.last.start

\* C30: the unsaved-changes flag is sound: while an image is loaded and the
\* flag is clear the buffer is the one last loaded or saved, so a step that
\* is not a load and that starts and ends with the flag clear leaves the
\* buffer as it was
C30_UnsavedFlagSound ==
    [][(/\ hasImage /\ hasImage'
        /\ ~hasUnsavedChanges /\ ~hasUnsavedChanges'
        /\ ~(hlog' # hlog /\ hlog'[Len(hlog')].op = "clear"))
           => currentImage' = currentImage]_vars

====
